---- MODULE Spec2Model ----
(***************************************************************************)
(* Model of the circus ring buffers: RingBuffer (src/ringbuffer.rs, slots  *)
(* are Option<T>) and RingBufferU (src/ringbufferu.rs, slots are           *)
(* MaybeUninit<T>), their consuming iterators and their destructors.       *)
(*                                                                         *)
(* A behaviour builds one buffer (its type, the element type's footprint   *)
(* and the requested capacity are chosen in Init) and then calls its       *)
(* operations in any order.  Elements are owned values that are moved in:  *)
(* the k-th pushed element is the object named k.  The code never looks    *)
(* inside an element, so the names are enough to follow each object from   *)
(* its push to its pop or its destruction.                                 *)
(***************************************************************************)
EXTENDS Integers, Sequences, FiniteSets

VARIABLES kind, zst, cap, rb, mode, hist

vars == <<kind, zst, cap, rb, mode, hist>>

\* ------------------------------------------------------------------ bounds

\* Largest capacity requested from with_capacity.
MaxCap == 3

\* Largest number of calls (push, pop, into_iter, next) made on one buffer.
MaxOps == 7

\* ------------------------------------------------------- program constants

\* usize::MAX, the capacity a Vec of zero-sized elements reports.  Scaled to
\* 16 bits: no index of the bounded model comes near it, so no addition wraps.
USIZE_MAX == 65535

\* Option::None, the empty slot of RingBuffer, and the empty result of pop.
None == 0

\* MaybeUninit::uninit(), a slot of RingBufferU that holds no value.
Uninit == -1

Kinds == {"RingBuffer", "RingBufferU"}

\* ----------------------------------------------------------------- helpers

\* What one call did: the buffer after it, what it returned, whether it
\* panicked, the elements whose destructor it ran (in order), and whether it
\* read a slot that holds no value (undefined behaviour).
Outcome(b, ret, panic, drp, ub) ==
    [b |-> b, ret |-> ret, panic |-> panic, drp |-> drp, ub |-> ub]

\* Vec::capacity of the buffer's storage.
capacity(b) == b.vcap

\* ------------------------------------------------------------- RingBuffer

\* A faulty with_capacity without the test for a zero-sized element type.
RB_with_capacity_always_sized(c, z) ==
    [start |-> 0, size |-> 0, variant |-> "Sized",
     buffer |-> [i \in 1..c |-> None], vcap |-> c]

\* RingBuffer::with_capacity: cap slots of None for a sized element type, an
\* empty Vec<T> (whose capacity is usize::MAX) for a zero-sized one.
RB_with_capacity(c, z) ==
    IF ~z
    THEN [start |-> 0, size |-> 0, variant |-> "Sized",
          buffer |-> [i \in 1..c |-> None], vcap |-> c]
    ELSE [start |-> 0, size |-> 0, variant |-> "Zerosized",
          buffer |-> <<>>, vcap |-> USIZE_MAX]

\* A faulty push that grows the storage of a full buffer instead of
\* overwriting: the Vec gets one more slot and doubles its capacity.
RB_push_reallocates(b, element) ==
    IF capacity(b) = 0
    THEN Outcome(b, None, TRUE, <<element>>, FALSE)
    ELSE IF b.variant = "Sized" /\ b.size = capacity(b)
    THEN Outcome([b EXCEPT !.buffer = Append(b.buffer, element),
                           !.vcap = 2 * b.vcap, !.size = b.size + 1],
                 None, FALSE, <<>>, FALSE)
    ELSE LET idx == (b.start + b.size) % capacity(b)
             buf == IF b.variant = "Sized"
                    THEN [b.buffer EXCEPT ![idx + 1] = element]
                    ELSE Append(b.buffer, element)
         IN  Outcome([b EXCEPT !.buffer = buf, !.size = b.size + 1],
                     None, FALSE, <<>>, FALSE)

\* A faulty push that, on a full buffer, overwrites the newest element and
\* keeps start.
RB_push_evicts_newest(b, element) ==
    IF capacity(b) = 0
    THEN Outcome(b, None, TRUE, <<element>>, FALSE)
    ELSE LET full == b.size = capacity(b)
             idx == IF full THEN (b.start + b.size - 1) % capacity(b)
                    ELSE (b.start + b.size) % capacity(b)
             old == IF b.variant = "Sized" /\ idx < Len(b.buffer)
                    THEN b.buffer[idx + 1] ELSE None
             buf == IF b.variant = "Sized"
                    THEN [b.buffer EXCEPT ![idx + 1] = element]
                    ELSE Append(b.buffer, element)
             b2  == IF full
                    THEN [b EXCEPT !.buffer = buf]
                    ELSE [b EXCEPT !.buffer = buf, !.size = b.size + 1]
         IN  IF b.variant = "Sized" /\ idx >= Len(b.buffer)
             THEN Outcome(b, None, TRUE, <<element>>, FALSE)
             ELSE Outcome(b2, None, FALSE,
                          IF old # None THEN <<old>> ELSE <<>>, FALSE)

\* RingBuffer::push.  `% capacity()` panics on a zero capacity, and the
\* element, still owned by the call, is destroyed by the unwinding.
RB_push(b, element) ==
    IF capacity(b) = 0
    THEN Outcome(b, None, TRUE, <<element>>, FALSE)
    ELSE LET idx == (b.start + b.size) % capacity(b)
             old == IF b.variant = "Sized" /\ idx < Len(b.buffer)
                    THEN b.buffer[idx + 1] ELSE None
             buf == IF b.variant = "Sized"
                    THEN [b.buffer EXCEPT ![idx + 1] = element]
                    ELSE Append(b.buffer, element)
             b2  == IF b.size = capacity(b)
                    THEN [b EXCEPT !.buffer = buf, !.start = b.start + 1]
                    ELSE [b EXCEPT !.buffer = buf, !.size = b.size + 1]
         IN  IF b.variant = "Sized" /\ idx >= Len(b.buffer)
             THEN Outcome(b, None, TRUE, <<element>>, FALSE)
             ELSE Outcome(b2, None, FALSE,
                          IF old # None THEN <<old>> ELSE <<>>, FALSE)

\* A faulty pop that takes the value out of slot start but never advances
\* start.
RB_pop_keeps_start(b) ==
    IF b.size = 0
    THEN Outcome(b, None, FALSE, <<>>, FALSE)
    ELSE IF capacity(b) = 0
    THEN Outcome(b, None, TRUE, <<>>, FALSE)
    ELSE LET idx == b.start
             b2  == [b EXCEPT !.size = b.size - 1]
         IN  IF b.variant = "Sized"
             THEN IF idx >= Len(b.buffer)
                  THEN Outcome(b2, None, TRUE, <<>>, FALSE)
                  ELSE Outcome([b2 EXCEPT !.buffer[idx + 1] = None],
                               b.buffer[idx + 1], FALSE, <<>>, FALSE)
             ELSE IF b.buffer = <<>>
                  THEN Outcome(b2, None, FALSE, <<>>, FALSE)
                  ELSE Outcome([b2 EXCEPT !.buffer =
                                    SubSeq(b.buffer, 1, Len(b.buffer) - 1)],
                               b.buffer[Len(b.buffer)], FALSE, <<>>, FALSE)

\* RingBuffer::pop.  start and size are updated before the slot is fetched,
\* so a failing `get_mut(idx).unwrap()` leaves them changed.
RB_pop(b) ==
    IF b.size = 0
    THEN Outcome(b, None, FALSE, <<>>, FALSE)
    ELSE IF capacity(b) = 0
    THEN Outcome(b, None, TRUE, <<>>, FALSE)
    ELSE LET idx == b.start
             b2  == [b EXCEPT !.start = (b.start + 1) % capacity(b),
                              !.size = b.size - 1]
         IN  IF b.variant = "Sized"
             THEN IF idx >= Len(b.buffer)
                  THEN Outcome(b2, None, TRUE, <<>>, FALSE)
                  ELSE Outcome([b2 EXCEPT !.buffer[idx + 1] = None],
                               b.buffer[idx + 1], FALSE, <<>>, FALSE)
             ELSE IF b.buffer = <<>>
                  THEN Outcome(b2, None, FALSE, <<>>, FALSE)
                  ELSE Outcome([b2 EXCEPT !.buffer =
                                    SubSeq(b.buffer, 1, Len(b.buffer) - 1)],
                               b.buffer[Len(b.buffer)], FALSE, <<>>, FALSE)

\* RBIter::next: the body of pop, written out again on the wrapped buffer.
RBIter_next(b) ==
    IF b.size = 0
    THEN Outcome(b, None, FALSE, <<>>, FALSE)
    ELSE IF capacity(b) = 0
    THEN Outcome(b, None, TRUE, <<>>, FALSE)
    ELSE LET idx == b.start
             b2  == [b EXCEPT !.start = (b.start + 1) % capacity(b),
                              !.size = b.size - 1]
         IN  IF b.variant = "Sized"
             THEN IF idx >= Len(b.buffer)
                  THEN Outcome(b2, None, TRUE, <<>>, FALSE)
                  ELSE Outcome([b2 EXCEPT !.buffer[idx + 1] = None],
                               b.buffer[idx + 1], FALSE, <<>>, FALSE)
             ELSE IF b.buffer = <<>>
                  THEN Outcome(b2, None, FALSE, <<>>, FALSE)
                  ELSE Outcome([b2 EXCEPT !.buffer =
                                    SubSeq(b.buffer, 1, Len(b.buffer) - 1)],
                               b.buffer[Len(b.buffer)], FALSE, <<>>, FALSE)

\* The destructor the compiler derives for RingBuffer: the Vec destroys every
\* element it holds, in index order; a None holds nothing.
RB_drop(b) ==
    Outcome([b EXCEPT !.buffer = <<>>], None, FALSE,
            SelectSeq(b.buffer, LAMBDA x : x # None), FALSE)

\* ------------------------------------------------------------ RingBufferU

\* RingBufferU::with_capacity: cap uninitialized slots.  MaybeUninit<T> is as
\* large as T, so for a zero-sized T the Vec reports usize::MAX as capacity
\* while holding cap slots.
RBU_with_capacity(c, z) ==
    [start |-> 0, size |-> 0, buffer |-> [i \in 1..c |-> Uninit],
     vcap |-> IF z THEN USIZE_MAX ELSE c]

\* A faulty push that increments size on a full buffer too.
RBU_push_always_grows(b, element) ==
    IF capacity(b) = 0
    THEN Outcome(b, None, TRUE, <<element>>, FALSE)
    ELSE LET idx  == (b.start + b.size) % capacity(b)
             full == b.size = capacity(b)
             b2   == IF full
                     THEN [b EXCEPT !.buffer[idx + 1] = Uninit,
                                    !.start = b.start + 1,
                                    !.size = b.size + 1]
                     ELSE [b EXCEPT !.size = b.size + 1]
         IN  IF full /\ idx >= Len(b.buffer)
             THEN Outcome(b, None, TRUE, <<element>>, FALSE)
             ELSE IF full /\ b.buffer[idx + 1] = Uninit
             THEN Outcome(b, None, FALSE, <<>>, TRUE)
             ELSE IF idx >= Len(b.buffer)
             THEN Outcome(b2, None, TRUE, <<>>, FALSE)
             ELSE Outcome([b2 EXCEPT !.buffer[idx + 1] = element], None, FALSE,
                          IF full THEN <<b.buffer[idx + 1]>> ELSE <<>>, FALSE)

\* A faulty push that overwrites the oldest element of a full buffer without
\* destroying it.
RBU_push_no_destroy(b, element) ==
    IF capacity(b) = 0
    THEN Outcome(b, None, TRUE, <<element>>, FALSE)
    ELSE LET idx  == (b.start + b.size) % capacity(b)
             full == b.size = capacity(b)
             b2   == IF full
                     THEN [b EXCEPT !.start = b.start + 1]
                     ELSE [b EXCEPT !.size = b.size + 1]
         IN  IF idx >= Len(b.buffer)
             THEN Outcome(b2, None, TRUE, <<>>, FALSE)
             ELSE Outcome([b2 EXCEPT !.buffer[idx + 1] = element], None, FALSE,
                          <<>>, FALSE)

\* RingBufferU::push.  On a full buffer the value in the target slot is
\* taken out and destroyed first.  The final indexed store panics when idx
\* is past the slots; the element, already moved into a MaybeUninit, is then
\* never destroyed.  A store over a slot does not destroy what it held.
RBU_push(b, element) ==
    IF capacity(b) = 0
    THEN Outcome(b, None, TRUE, <<element>>, FALSE)
    ELSE LET idx  == (b.start + b.size) % capacity(b)
             full == b.size = capacity(b)
             b2   == IF full
                     THEN [b EXCEPT !.buffer[idx + 1] = Uninit,
                                    !.start = b.start + 1]
                     ELSE [b EXCEPT !.size = b.size + 1]
         IN  IF full /\ idx >= Len(b.buffer)
             THEN Outcome(b, None, TRUE, <<element>>, FALSE)
             ELSE IF full /\ b.buffer[idx + 1] = Uninit
             THEN Outcome(b, None, FALSE, <<>>, TRUE)
             ELSE IF idx >= Len(b.buffer)
             THEN Outcome(b2, None, TRUE, <<>>, FALSE)
             ELSE Outcome([b2 EXCEPT !.buffer[idx + 1] = element], None, FALSE,
                          IF full THEN <<b.buffer[idx + 1]>> ELSE <<>>, FALSE)

\* A faulty pop without the test for an empty buffer.
RBU_pop_unchecked(b) ==
    IF capacity(b) = 0
    THEN Outcome(b, None, TRUE, <<>>, FALSE)
    ELSE LET idx == b.start
             b2  == [b EXCEPT !.start = (b.start + 1) % capacity(b),
                              !.size = b.size - 1]
         IN  IF idx >= Len(b.buffer)
             THEN Outcome(b2, None, TRUE, <<>>, FALSE)
             ELSE IF b.buffer[idx + 1] = Uninit
             THEN Outcome(b2, None, FALSE, <<>>, TRUE)
             ELSE Outcome([b2 EXCEPT !.buffer[idx + 1] = Uninit],
                          b.buffer[idx + 1], FALSE, <<>>, FALSE)

\* RingBufferU::pop.  start and size are updated before the slot is fetched;
\* the slot is left uninitialized and its value moved to the caller.
RBU_pop(b) ==
    IF b.size = 0
    THEN Outcome(b, None, FALSE, <<>>, FALSE)
    ELSE IF capacity(b) = 0
    THEN Outcome(b, None, TRUE, <<>>, FALSE)
    ELSE LET idx == b.start
             b2  == [b EXCEPT !.start = (b.start + 1) % capacity(b),
                              !.size = b.size - 1]
         IN  IF idx >= Len(b.buffer)
             THEN Outcome(b2, None, TRUE, <<>>, FALSE)
             ELSE IF b.buffer[idx + 1] = Uninit
             THEN Outcome(b2, None, FALSE, <<>>, TRUE)
             ELSE Outcome([b2 EXCEPT !.buffer[idx + 1] = Uninit],
                          b.buffer[idx + 1], FALSE, <<>>, FALSE)

\* RBUIter::next: the body of pop, written out again on the wrapped buffer.
RBUIter_next(b) ==
    IF b.size = 0
    THEN Outcome(b, None, FALSE, <<>>, FALSE)
    ELSE IF capacity(b) = 0
    THEN Outcome(b, None, TRUE, <<>>, FALSE)
    ELSE LET idx == b.start
             b2  == [b EXCEPT !.start = (b.start + 1) % capacity(b),
                              !.size = b.size - 1]
         IN  IF idx >= Len(b.buffer)
             THEN Outcome(b2, None, TRUE, <<>>, FALSE)
             ELSE IF b.buffer[idx + 1] = Uninit
             THEN Outcome(b2, None, FALSE, <<>>, TRUE)
             ELSE Outcome([b2 EXCEPT !.buffer[idx + 1] = Uninit],
                          b.buffer[idx + 1], FALSE, <<>>, FALSE)

\* The loop of Drop::drop, `while self.size > 0 { self.pop(); }`, from buffer
\* b with the elements in acc already destroyed: each popped value is
\* destroyed at once, and a panic of pop leaves the loop.
RECURSIVE RBU_drop_loop(_, _)
RBU_drop_loop(b, acc) ==
    IF b.size > 0
    THEN LET r == RBU_pop(b)
         IN  IF r.panic \/ r.ub
             THEN Outcome(r.b, None, r.panic, acc, r.ub)
             ELSE RBU_drop_loop(r.b, Append(acc, r.ret))
    ELSE Outcome(b, None, FALSE, acc, FALSE)

\* impl Drop for RingBufferU.  The Vec<MaybeUninit<T>> is freed afterwards
\* without destroying anything its slots still hold.
RBU_drop(b) == RBU_drop_loop(b, <<>>)

\* ------------------------------------------------------------------ state

\* One call as the history keeps it: the operation, the element pushed or
\* the value returned, how the call ended, and the elements it destroyed.
Event(op, val, r) ==
    [op |-> op, val |-> val,
     res |-> IF r.ub THEN "ub" ELSE IF r.panic THEN "panic" ELSE "ok",
     drp |-> r.drp]

\* The name of the next element to be pushed.
NextElement == Cardinality({i \in 1..Len(hist) : hist[i].op = "push"}) + 1

\* The state after a call with outcome r made in mode m: a panic starts the
\* unwinding of the owner's frame, a read of a slot without a value leaves
\* the program undefined.
After(r, m) == IF r.ub THEN "undefined" ELSE IF r.panic THEN "unwinding" ELSE m

Init ==
    /\ kind \in Kinds
    /\ zst \in BOOLEAN
    /\ cap \in 0..MaxCap
    /\ rb = IF kind = "RingBuffer" THEN RB_with_capacity(cap, zst)
                                   ELSE RBU_with_capacity(cap, zst)
    /\ mode = "buffer"
    /\ hist = <<>>

RingBuffer_push ==
    /\ kind = "RingBuffer" /\ mode = "buffer" /\ Len(hist) < MaxOps
    /\ LET r == RB_push(rb, NextElement)
       IN  /\ rb' = r.b
           /\ mode' = After(r, mode)
           /\ hist' = Append(hist, Event("push", NextElement, r))
    /\ UNCHANGED <<kind, zst, cap>>

RingBuffer_pop ==
    /\ kind = "RingBuffer" /\ mode = "buffer" /\ Len(hist) < MaxOps
    /\ LET r == RB_pop(rb)
       IN  /\ rb' = r.b
           /\ mode' = After(r, mode)
           /\ hist' = Append(hist, Event("pop", r.ret, r))
    /\ UNCHANGED <<kind, zst, cap>>

RingBuffer_into_iter ==
    /\ kind = "RingBuffer" /\ mode = "buffer" /\ Len(hist) < MaxOps
    /\ mode' = "iter"
    /\ hist' = Append(hist, Event("into_iter", None,
                                  Outcome(rb, None, FALSE, <<>>, FALSE)))
    /\ UNCHANGED <<kind, zst, cap, rb>>

RBIter_step ==
    /\ kind = "RingBuffer" /\ mode = "iter" /\ Len(hist) < MaxOps
    /\ LET r == RBIter_next(rb)
       IN  /\ rb' = r.b
           /\ mode' = After(r, mode)
           /\ hist' = Append(hist, Event("next", r.ret, r))
    /\ UNCHANGED <<kind, zst, cap>>

\* The buffer (or the iterator that wraps it) goes out of scope, at the end
\* of its owner's frame or while a panic unwinds it.
RingBuffer_drop ==
    /\ kind = "RingBuffer" /\ mode \in {"buffer", "iter", "unwinding"}
    /\ LET r == RB_drop(rb)
       IN  /\ rb' = r.b
           /\ mode' = "dropped"
           /\ hist' = Append(hist, Event("drop", None, r))
    /\ UNCHANGED <<kind, zst, cap>>

RingBufferU_push ==
    /\ kind = "RingBufferU" /\ mode = "buffer" /\ Len(hist) < MaxOps
    /\ LET r == RBU_push(rb, NextElement)
       IN  /\ rb' = r.b
           /\ mode' = After(r, mode)
           /\ hist' = Append(hist, Event("push", NextElement, r))
    /\ UNCHANGED <<kind, zst, cap>>

RingBufferU_pop ==
    /\ kind = "RingBufferU" /\ mode = "buffer" /\ Len(hist) < MaxOps
    /\ LET r == RBU_pop(rb)
       IN  /\ rb' = r.b
           /\ mode' = After(r, mode)
           /\ hist' = Append(hist, Event("pop", r.ret, r))
    /\ UNCHANGED <<kind, zst, cap>>

RingBufferU_into_iter ==
    /\ kind = "RingBufferU" /\ mode = "buffer" /\ Len(hist) < MaxOps
    /\ mode' = "iter"
    /\ hist' = Append(hist, Event("into_iter", None,
                                  Outcome(rb, None, FALSE, <<>>, FALSE)))
    /\ UNCHANGED <<kind, zst, cap, rb>>

RBUIter_step ==
    /\ kind = "RingBufferU" /\ mode = "iter" /\ Len(hist) < MaxOps
    /\ LET r == RBUIter_next(rb)
       IN  /\ rb' = r.b
           /\ mode' = After(r, mode)
           /\ hist' = Append(hist, Event("next", r.ret, r))
    /\ UNCHANGED <<kind, zst, cap>>

\* The buffer (or the iterator that wraps it) goes out of scope.  A panic of
\* the destructor while another panic unwinds aborts the process; otherwise
\* the panic leaves the destructor and the storage is freed all the same.
RingBufferU_drop ==
    /\ kind = "RingBufferU" /\ mode \in {"buffer", "iter", "unwinding"}
    /\ LET r == RBU_drop(rb)
       IN  /\ rb' = r.b
           /\ mode' = IF r.ub THEN "undefined"
                      ELSE IF r.panic /\ mode = "unwinding" THEN "aborted"
                      ELSE "dropped"
           /\ hist' = Append(hist, Event("drop", None, r))
    /\ UNCHANGED <<kind, zst, cap>>

Next ==
    \/ RingBuffer_push
    \/ RingBuffer_pop
    \/ RingBuffer_into_iter
    \/ RBIter_step
    \/ RingBuffer_drop
    \/ RingBufferU_push
    \/ RingBufferU_pop
    \/ RingBufferU_into_iter
    \/ RBUIter_step
    \/ RingBufferU_drop

Spec == Init /\ [][Next]_vars

\* ------------------------------------------------- reading the history

\* The calls of one operation, in order.
Calls(h, op) == SelectSeq(h, LAMBDA e : e.op = op)

NPush == Len(Calls(hist, "push"))

NPop == Len(Calls(hist, "pop"))

\* What a caller can tell about an element: the values of a zero-sized type
\* are all equal, the values of a sized type are told apart.
Value(x) == IF zst THEN 1 ELSE x

\* The history is some pushes followed by some pops and nothing else.
PushesThenPops(h) ==
    \E n \in 0..Len(h) :
        \A i \in 1..Len(h) : h[i].op = (IF i <= n THEN "push" ELSE "pop")

\* The abstract bounded FIFO with overwrite of capacity c: push appends,
\* first dropping the head of a sequence of length c; pop and next remove
\* the head; drop empties it.
FifoStep(q, e, c) ==
    IF e.op = "push"
    THEN IF c = 0 THEN q
         ELSE IF Len(q) >= c THEN Append(Tail(q), e.val) ELSE Append(q, e.val)
    ELSE IF e.op \in {"pop", "next"}
    THEN IF q = <<>> THEN q ELSE Tail(q)
    ELSE IF e.op = "drop" THEN <<>>
    ELSE q

RECURSIVE Fifo(_, _)
Fifo(h, c) ==
    IF h = <<>> THEN <<>>
    ELSE FifoStep(Fifo(SubSeq(h, 1, Len(h) - 1), c), h[Len(h)], c)

\* The abstract FIFO just before the i-th call of the history.
FifoBefore(i) == Fifo(SubSeq(hist, 1, i - 1), capacity(rb))

\* ----------------------------------------------------------------- claims

\* C1: for every capacity C >= 1 and N > C, pushing N distinct values into a
\* fresh buffer of either type and popping C times yields the last C values
\* pushed, oldest first, and the pop after them yields the empty result.
C1_OverwriteKeepsLastC ==
    (~zst /\ cap >= 1 /\ PushesThenPops(hist) /\ NPush > cap) =>
        \A j \in 1..NPop :
            LET e == hist[NPush + j]
            IN  /\ e.res = "ok"
                /\ e.val = (IF j <= cap THEN NPush - cap + j ELSE None)

\* C2: for every capacity C >= 1 and N <= C, pushing N values into a fresh
\* buffer and popping repeatedly yields the N values in the order pushed,
\* then the empty result.
C2_FifoWithinCapacity ==
    (cap >= 1 /\ PushesThenPops(hist) /\ NPush <= cap) =>
        /\ \A i \in 1..NPush : hist[i].res = "ok"
        /\ \A j \in 1..NPop :
               LET e == hist[NPush + j]
               IN  /\ e.res = "ok"
                   /\ IF j <= NPush
                      THEN e.val # None /\ Value(e.val) = Value(hist[j].val)
                      ELSE e.val = None

\* C2's case: a buffer filled to its capacity of at least two, then popped
\* once more than it holds.
C2_Witness ==
    /\ cap >= 2 /\ PushesThenPops(hist)
    /\ NPush = cap /\ NPop = cap + 1

\* C3: under every interleaving of push and pop on a buffer of capacity
\* C >= 1 the buffer is the abstract bounded FIFO with overwrite: its size is
\* the length of the abstract sequence, and every pop on a non-empty buffer
\* completes and returns the head of that sequence.
C3_RefinesBoundedFifo ==
    (~zst /\ cap >= 1 /\ \A i \in 1..Len(hist) : hist[i].op \in {"push", "pop"}) =>
        /\ rb.size = Len(Fifo(hist, cap))
        /\ \A i \in 1..Len(hist) :
               /\ hist[i].res = "ok"
               /\ hist[i].op = "pop" =>
                      hist[i].val = (IF FifoBefore(i) = <<>> THEN None
                                     ELSE Head(FifoBefore(i)))

\* C4: in every state reachable by push, pop and iterator steps on a buffer
\* of capacity C >= 1, 0 <= start < capacity.
C4_StartInRange ==
    (cap >= 1 /\ mode \in {"buffer", "iter"}) =>
        0 <= rb.start /\ rb.start < capacity(rb)

\* C5: in every reachable state 0 <= size <= capacity: size never exceeds
\* the capacity and never goes below zero.
C5_SizeInRange == 0 <= rb.size /\ rb.size <= capacity(rb)

\* C5's case: a full buffer of capacity at least one that has taken a push
\* while full and a pop while empty.
C5_Witness ==
    /\ cap >= 1 /\ ~zst /\ rb.size = capacity(rb)
    /\ NPush > cap
    /\ \E i \in 1..Len(hist) : hist[i].op = "pop" /\ hist[i].val = None

Max(a, b) == IF a >= b THEN a ELSE b

Min(a, b) == IF a <= b THEN a ELSE b

\* The history holds calls of push and pop only.
OnlyPushPop(h) == \A i \in 1..Len(h) : h[i].op \in {"push", "pop"}

\* The pops that returned a value.
NPopSome ==
    Cardinality({i \in 1..Len(hist) : hist[i].op = "pop" /\ hist[i].val # None})

\* C6 as stated: after any sequence of push and pop, size equals
\* max(0, min(pushes so far, capacity) - pops so far), whether the pops
\* counted are all the calls or only those that returned a value.
C6_SizeFromCounts ==
    OnlyPushPop(hist) =>
        \/ rb.size = Max(0, Min(NPush, capacity(rb)) - NPop)
        \/ rb.size = Max(0, Min(NPush, capacity(rb)) - NPopSome)

\* C6, amended: after any sequence of pushes followed by any sequence of
\* pops (no push after the first pop), size equals
\* max(0, min(pushes so far, capacity) - pops so far).
C6_SizeFromCountsPushesFirst ==
    PushesThenPops(hist) =>
        rb.size = Max(0, Min(NPush, capacity(rb)) - NPop)

\* C6's case: more pushes than the capacity, then more pops than the buffer
\* holds, so that both the minimum and the clamp at zero decide the size.
C6_Witness ==
    /\ ~zst /\ cap >= 1 /\ PushesThenPops(hist)
    /\ NPush > cap /\ NPop > cap

\* C7: a buffer of capacity zero (sized elements) is accepted, every push on
\* it completes, evicts the pushed element at once and leaves size at 0, and
\* a following pop returns the empty result.
C7_ZeroCapacityPush ==
    (~zst /\ cap = 0) =>
        /\ rb.size = 0
        /\ \A i \in 1..Len(hist) :
               /\ hist[i].op = "push" =>
                      hist[i].res = "ok" /\ hist[i].drp = <<hist[i].val>>
               /\ hist[i].op = "pop" =>
                      hist[i].res = "ok" /\ hist[i].val = None

\* How often element x was destroyed, and how often it was returned.
DestroyedCount(x) ==
    Cardinality({p \in (1..Len(hist)) \X (1..MaxOps) :
                    p[2] <= Len(hist[p[1]].drp) /\ hist[p[1]].drp[p[2]] = x})

ReturnedCount(x) ==
    Cardinality({i \in 1..Len(hist) :
                    hist[i].op \in {"pop", "next"} /\ hist[i].val = x})

\* The elements of a sequence.
Range(q) == {q[i] : i \in 1..Len(q)}

\* C8: when a RingBufferU is discarded in a reachable state with size > 0,
\* the drop completes and every element still present is destroyed exactly
\* once.
C8_DropDestroysEachOnce ==
    (/\ kind = "RingBufferU" /\ hist # <<>>
     /\ hist[Len(hist)].op = "drop"
     /\ \A i \in 1..Len(hist) - 1 : hist[i].res = "ok"
     /\ FifoBefore(Len(hist)) # <<>>) =>
        /\ hist[Len(hist)].res = "ok"
        /\ \A x \in Range(FifoBefore(Len(hist))) :
               DestroyedCount(x) = 1 /\ ReturnedCount(x) = 0

\* C9: in RingBufferU, under any sequence of push, pop, iterator steps and a
\* final drop, no slot is read unless it holds a value, no element is
\* returned or destroyed twice, a push into a full buffer destroys exactly
\* the oldest element, and a push into a buffer that is not full destroys
\* nothing.
C9_RawSlotsUsedSafely ==
    kind = "RingBufferU" =>
        /\ mode # "undefined"
        /\ \A i \in 1..Len(hist) : hist[i].res # "ub"
        /\ \A x \in 1..NPush : DestroyedCount(x) + ReturnedCount(x) <= 1
        /\ \A i \in 1..Len(hist) :
               (hist[i].op = "push" /\ capacity(rb) >= 1) =>
                   hist[i].drp = (IF Len(FifoBefore(i)) = capacity(rb)
                                  THEN <<Head(FifoBefore(i))>> ELSE <<>>)

\* C9's case: a RingBufferU that overwrote an element, returned one from a
\* pop and destroyed the rest when it was dropped.
C9_Witness ==
    /\ kind = "RingBufferU" /\ ~zst /\ mode = "dropped"
    /\ \E i \in 1..Len(hist) : hist[i].op = "push" /\ hist[i].drp # <<>>
    /\ \E i \in 1..Len(hist) : hist[i].op = "pop" /\ hist[i].val # None
    /\ hist[Len(hist)].op = "drop" /\ hist[Len(hist)].drp # <<>>

\* C10: turning a non-empty buffer into its consuming iterator and collecting
\* it yields the buffer's contents, oldest first, and leaves the wrapped
\* buffer with size 0.
C10_IterYieldsContents ==
    \A i \in 1..Len(hist) :
        (/\ ~zst /\ cap >= 1
         /\ hist[i].op = "into_iter"
         /\ FifoBefore(i) # <<>>) =>
            LET contents == FifoBefore(i)
                steps == {k \in 1..(Len(hist) - i) : hist[i + k].op = "next"}
            IN  /\ \A k \in steps :
                       /\ hist[i + k].res = "ok"
                       /\ hist[i + k].val = (IF k <= Len(contents)
                                             THEN contents[k] ELSE None)
                /\ Cardinality(steps) >= Len(contents) => rb.size = 0

\* The calls of next that returned a value.
NNextSome ==
    Cardinality({i \in 1..Len(hist) : hist[i].op = "next" /\ hist[i].val # None})

\* C11: for a sized element type capacity() of a buffer built by
\* with_capacity(N) equals N, and still equals N after any sequence of push,
\* pop and iterator steps.
C11_CapacityIsRequested ==
    (~zst /\ mode \in {"buffer", "iter", "unwinding"}) => capacity(rb) = cap

\* C11's case: a buffer of capacity at least one that has been pushed to
\* while full, popped and stepped through its iterator.
C11_Witness ==
    /\ ~zst /\ cap >= 1 /\ mode = "iter"
    /\ NPush > cap /\ NPopSome >= 1 /\ NNextSome >= 1

\* C12: pop on a buffer with size = 0, in any reachable state, returns the
\* empty result and leaves start, size and every storage slot unchanged.
C12_PopOnEmpty ==
    [][(/\ rb.size = 0
        /\ Len(hist') = Len(hist) + 1
        /\ hist'[Len(hist')].op = "pop") =>
           (/\ rb' = rb
            /\ mode' = mode
            /\ hist'[Len(hist')].res = "ok"
            /\ hist'[Len(hist')].val = None)]_vars

\* C12's case: a pop on a buffer that was emptied by pops and whose start
\* has moved.
C12_Witness ==
    /\ hist # <<>> /\ hist[Len(hist)].op = "pop" /\ hist[Len(hist)].val = None
    /\ rb.size = 0 /\ rb.start > 0 /\ NPopSome >= 1

\* C13: for a zero-sized element type RingBuffer reports usize::MAX as its
\* capacity whatever capacity was requested, every push succeeds and
\* increments size by one without evicting, and after p pushes and q <= p
\* pops that each returned an element the iterator yields exactly p - q
\* elements.
C13_ZeroSizedTagged ==
    (kind = "RingBuffer" /\ zst) =>
        /\ capacity(rb) = USIZE_MAX
        /\ \A i \in 1..Len(hist) :
               hist[i].op = "push" => hist[i].res = "ok" /\ hist[i].drp = <<>>
        /\ mode \in {"buffer", "iter"} =>
               rb.size = NPush - NPopSome - NNextSome
        /\ (\E i \in 1..Len(hist) : hist[i].op = "next" /\ hist[i].val = None) =>
               NNextSome = NPush - NPopSome

\* C13's case: more pushes than the requested capacity, a pop, and an
\* iterator run to its end.
C13_Witness ==
    /\ kind = "RingBuffer" /\ zst /\ cap >= 1
    /\ NPush > cap /\ NPopSome >= 1 /\ NNextSome >= 1
    /\ \E i \in 1..Len(hist) : hist[i].op = "next" /\ hist[i].val = None

\* C14: for a zero-sized element type RingBufferU built by with_capacity(N)
\* reports usize::MAX as its capacity, and any number of pushes, more than N
\* and after pops included, succeeds without evicting, each incrementing
\* size by one.
C14_ZeroSizedRaw ==
    (kind = "RingBufferU" /\ zst) =>
        /\ capacity(rb) = USIZE_MAX
        /\ \A i \in 1..Len(hist) :
               hist[i].op = "push" => hist[i].res = "ok" /\ hist[i].drp = <<>>
        /\ mode \in {"buffer", "iter"} =>
               rb.size = NPush - NPopSome - NNextSome

\* The indices of the occupied range: (start + k) mod capacity for k in
\* [0, size).
OccupiedRange(b) == {(b.start + k) % capacity(b) : k \in 0..(b.size - 1)}

\* C15: in RingBuffer with capacity C >= 1 and sized elements, in every
\* reachable state the slots that hold Some are exactly those at indices
\* (start + k) mod capacity for k in [0, size) and all others are None; hence
\* pop returns the empty result only when size = 0.
C15_SomeSlotsAreTheRange ==
    (kind = "RingBuffer" /\ ~zst /\ cap >= 1
     /\ mode \in {"buffer", "iter", "unwinding"}) =>
        /\ {i \in 0..(Len(rb.buffer) - 1) : rb.buffer[i + 1] # None}
               = OccupiedRange(rb)
        /\ \A i \in 1..Len(hist) :
               (hist[i].op = "pop" /\ hist[i].res = "ok" /\ hist[i].val = None)
                   => FifoBefore(i) = <<>>

\* The event a step appends to the history.
Appended == hist'[Len(hist')]

\* C16: every push, pop and iterator step changes (start, size) by one of the
\* four index rules: push on a buffer that is not full writes at
\* (start + size) mod capacity, keeps start and increments size; push on a
\* full buffer sets start to (start + 1) mod capacity and keeps size; pop or
\* next on a non-empty buffer sets start to (start + 1) mod capacity and
\* decrements size; pop on an empty buffer changes nothing.
C16_FourIndexRules ==
    [][(/\ Len(hist') = Len(hist) + 1
        /\ capacity(rb) >= 1
        /\ Appended.op \in {"push", "pop", "next"}) =>
           IF Appended.op = "push"
           THEN IF rb.size = capacity(rb)
                THEN /\ rb'.start = (rb.start + 1) % capacity(rb)
                     /\ rb'.size = rb.size
                ELSE /\ rb'.start = rb.start
                     /\ rb'.size = rb.size + 1
           ELSE IF rb.size = 0
                THEN rb'.start = rb.start /\ rb'.size = rb.size
                ELSE /\ rb'.start = (rb.start + 1) % capacity(rb)
                     /\ rb'.size = rb.size - 1]_vars

\* The retained values of a buffer of sized elements, oldest first: the slots
\* of the occupied range in order.
Contents(b) ==
    [k \in 1..b.size |-> b.buffer[((b.start + k - 1) % capacity(b)) + 1]]

\* C17: for a buffer of capacity C >= 1 with sized elements push completes
\* in every reachable state, full or not; on a full buffer it evicts exactly
\* the single oldest element, and the pushed value becomes the newest
\* retained element.
C17_PushNeverFails ==
    (~zst /\ cap >= 1) =>
        /\ \A i \in 1..Len(hist) :
               hist[i].op = "push" =>
                   /\ hist[i].res = "ok"
                   /\ hist[i].drp = (IF Len(FifoBefore(i)) = cap
                                     THEN <<Head(FifoBefore(i))>> ELSE <<>>)
        /\ (hist # <<>> /\ hist[Len(hist)].op = "push") =>
               /\ Contents(rb) = Fifo(hist, cap)
               /\ Contents(rb)[rb.size] = hist[Len(hist)].val

\* C17's case: a push on a full buffer of capacity at least two whose start
\* has already passed the capacity.
C17_Witness ==
    /\ ~zst /\ cap >= 2 /\ hist # <<>>
    /\ hist[Len(hist)].op = "push" /\ hist[Len(hist)].drp # <<>>
    /\ rb.start > cap

\* What pop does on buffer b of the type under test.
PopOf(b) == IF kind = "RingBuffer" THEN RB_pop(b) ELSE RBU_pop(b)

\* C18: one step of the consuming iterator is exactly one pop: in every
\* reachable buffer state RBIter::next (RBUIter::next) returns what pop would
\* return on the wrapped buffer and leaves start, size and storage as pop
\* would.
C18_NextIsPop ==
    [][(Len(hist') = Len(hist) + 1 /\ Appended.op = "next") =>
           /\ rb' = PopOf(rb).b
           /\ Appended = Event("next", PopOf(rb).ret, PopOf(rb))]_vars

\* C18's case: an iterator that has yielded an element, run to its end and
\* been asked once more.
C18_Witness ==
    /\ mode = "iter" /\ ~zst /\ NNextSome >= 1 /\ rb.start > 0
    /\ Len(hist) >= 2
    /\ hist[Len(hist)].op = "next" /\ hist[Len(hist)].val = None
    /\ hist[Len(hist) - 1].op = "next" /\ hist[Len(hist) - 1].val = None

\* The same call made on a RingBuffer, and on a RingBufferU.
ApplyRB(b, e) == IF e.op = "push" THEN RB_push(b, e.val) ELSE RB_pop(b)

ApplyRBU(b, e) == IF e.op = "push" THEN RBU_push(b, e.val) ELSE RBU_pop(b)

\* The calls of history h made, from with_capacity(c) on, on a RingBuffer of
\* sized elements: the buffer reached and what each call was seen to do.
RECURSIVE ReplayRB(_, _)
ReplayRB(h, c) ==
    IF h = <<>> THEN [b |-> RB_with_capacity(c, FALSE), evs |-> <<>>]
    ELSE LET prev == ReplayRB(SubSeq(h, 1, Len(h) - 1), c)
             e    == h[Len(h)]
             r    == ApplyRB(prev.b, e)
         IN  [b |-> r.b,
              evs |-> Append(prev.evs,
                             Event(e.op, IF e.op = "push" THEN e.val ELSE r.ret, r))]

\* The same on a RingBufferU.
RECURSIVE ReplayRBU(_, _)
ReplayRBU(h, c) ==
    IF h = <<>> THEN [b |-> RBU_with_capacity(c, FALSE), evs |-> <<>>]
    ELSE LET prev == ReplayRBU(SubSeq(h, 1, Len(h) - 1), c)
             e    == h[Len(h)]
             r    == ApplyRBU(prev.b, e)
         IN  [b |-> r.b,
              evs |-> Append(prev.evs,
                             Event(e.op, IF e.op = "push" THEN e.val ELSE r.ret, r))]

\* The slots of a RingBuffer as slots of a RingBufferU: None holds no value.
AsRawSlots(buf) ==
    [i \in 1..Len(buf) |-> IF buf[i] = None THEN Uninit ELSE buf[i]]

\* C19: for sized elements RingBuffer and RingBufferU built with the same
\* capacity and driven by the same pushes and pops are observationally
\* equivalent: after every prefix start and size are equal, every call ends
\* the same way in both (value, empty or failure), and the Some slots of the
\* one hold the values of the initialized slots of the other.
C19_TaggedAndRawAgree ==
    (~zst /\ OnlyPushPop(hist)) =>
        LET other == IF kind = "RingBuffer" THEN ReplayRBU(hist, cap)
                                            ELSE ReplayRB(hist, cap)
        IN  /\ other.b.start = rb.start
            /\ other.b.size = rb.size
            /\ other.evs = hist
            /\ IF kind = "RingBuffer"
               THEN AsRawSlots(rb.buffer) = other.b.buffer
               ELSE AsRawSlots(other.b.buffer) = rb.buffer

\* C19's case: a RingBufferU of capacity at least two that has evicted an
\* element, returned one and answered a pop with the empty result.
C19_Witness ==
    /\ ~zst /\ kind = "RingBufferU" /\ cap >= 2 /\ OnlyPushPop(hist)
    /\ NPush > cap /\ NPopSome >= 1 /\ NPop > NPopSome

\* C20: draining terminates: from a buffer with size = n the consuming
\* iterator returns its end marker after exactly n steps that yield an
\* element and on every later call, and the drop loop of RingBufferU reaches
\* size = 0 after exactly n pops.
C20_DrainingTerminates ==
    /\ \A i \in 1..Len(hist) :
           hist[i].op = "into_iter" =>
               \A k \in 1..(Len(hist) - i) :
                   hist[i + k].op = "next" =>
                       /\ hist[i + k].res = "ok"
                       /\ (hist[i + k].val # None) <=> (k <= Len(FifoBefore(i)))
    /\ (/\ kind = "RingBufferU" /\ hist # <<>>
        /\ hist[Len(hist)].op = "drop"
        /\ \A i \in 1..(Len(hist) - 1) : hist[i].res = "ok") =>
           /\ hist[Len(hist)].res = "ok"
           /\ Len(hist[Len(hist)].drp) = Len(FifoBefore(Len(hist)))
           /\ rb.size = 0

====
